---- MODULE Spec2Model ----
(***************************************************************************)
(* The calendar controller of src/composables/useCalendar.ts (useCalendar) *)
(* as a state machine: the visible window `months`, the shared cursor      *)
(* props.dateCursor, the bounds captured at construction, the caller's     *)
(* disabled flag, and the queued watch(props.dateCursor) callback.         *)
(*                                                                         *)
(* A date is a record [year, month, day] of the Gregorian calendar         *)
(* (a CalendarDate of @internationalized/date).                            *)
(***************************************************************************)
EXTENDS Integers, Sequences, FiniteSets, TLC

----------------------------------------------------------------------------
(* Bounds of the model *)

\* The largest numberOfMonths a configuration is drawn with.
MaxNumberOfMonths == 2

\* The number of calendar months, from RangeStart on, a window may lie in.
RangeMonths == 14

\* The first month the window may show.
RangeStart == [year |-> 2025, month |-> 11, day |-> 1]

----------------------------------------------------------------------------
(* The date capability: @internationalized/date *)

\* `undefined` where a DateValue is optional (minValue, maxValue)
Undefined == [year |-> 0, month |-> 0, day |-> 0]

IsSet(d) == d # Undefined

IsLeapYear(y) == (y % 4 = 0) /\ ((y % 100 # 0) \/ (y % 400 = 0))

DaysInMonth(y, m) ==
  IF m = 2 THEN (IF IsLeapYear(y) THEN 29 ELSE 28)
  ELSE IF m \in {4, 6, 9, 11} THEN 30 ELSE 31

Min(a, b) == IF a < b THEN a ELSE b

\* months since year 0: the (year, month) of a date as one number
MonthIndex(d) == d.year * 12 + (d.month - 1)

\* date.add({ months: n }): balance year and month, then constrain the day
AddMonths(d, n) ==
  LET idx == MonthIndex(d) + n
      y   == idx \div 12
      m   == (idx % 12) + 1
  IN  [year |-> y, month |-> m, day |-> Min(d.day, DaysInMonth(y, m))]

\* date.subtract({ months: n })
SubtractMonths(d, n) == AddMonths(d, 0 - n)

startOfMonth(d) == [d EXCEPT !.day = 1]

endOfMonth(d) == [d EXCEPT !.day = DaysInMonth(d.year, d.month)]

isSameMonth(a, b) ==
  /\ startOfMonth(a).year = startOfMonth(b).year
  /\ startOfMonth(a).month = startOfMonth(b).month

\* a.compare(b): negative, zero or positive
Compare(a, b) ==
  IF a.year # b.year THEN a.year - b.year
  ELSE IF a.month # b.month THEN a.month - b.month
  ELSE a.day - b.day

\* days since 1970-01-01
DayNumber(d) ==
  LET y   == IF d.month <= 2 THEN d.year - 1 ELSE d.year
      era == y \div 400
      yoe == y - era * 400
      mp  == IF d.month > 2 THEN d.month - 3 ELSE d.month + 9
      doy == ((153 * mp + 2) \div 5) + d.day - 1
      doe == yoe * 365 + (yoe \div 4) - (yoe \div 100) + doy
  IN  era * 146097 + doe - 719468

\* 0 = Sunday .. 6 = Saturday
DayOfWeek(d) == (DayNumber(d) + 4) % 7

\* date.add({ days: 1 })
NextDay(d) ==
  IF d.day < DaysInMonth(d.year, d.month) THEN [d EXCEPT !.day = d.day + 1]
  ELSE startOfMonth(AddMonths(startOfMonth(d), 1))

\* date.subtract({ days: 1 })
PrevDay(d) ==
  IF d.day > 1 THEN [d EXCEPT !.day = d.day - 1]
  ELSE endOfMonth(SubtractMonths(d, 1))

\* dateCursor.set({ ...value }): every field of a calendar date is
\* overwritten by value's, then the day is constrained to the month
CursorSet(value) ==
  [year |-> value.year, month |-> value.month,
   day |-> Min(value.day, DaysInMonth(value.year, value.month))]

----------------------------------------------------------------------------
(* ../utils: isAfter, isBefore, createMonths *)

isAfter(a, b) == Compare(a, b) > 0

isBefore(a, b) == Compare(a, b) < 0

RECURSIVE WalkBack(_, _)
\* the latest day at or before d whose day of week is dow
WalkBack(d, dow) == IF DayOfWeek(d) = dow THEN d ELSE WalkBack(PrevDay(d), dow)

RECURSIVE WalkForward(_, _)
\* the earliest day at or after d whose day of week is dow
WalkForward(d, dow) == IF DayOfWeek(d) = dow THEN d ELSE WalkForward(NextDay(d), dow)

RECURSIVE DaysFrom(_, _)
\* the n consecutive days that start at d
DaysFrom(d, n) == IF n = 0 THEN <<>> ELSE <<d>> \o DaysFrom(NextDay(d), n - 1)

\* a full grid has 6 weeks
FixedWeeksDays == 42

RECURSIVE ExtendWeeks(_)
\* fixedWeeks: one more trailing week at a time until the grid has 6 weeks
ExtendWeeks(count) == IF count < FixedWeeksDays THEN ExtendWeeks(count + 7) ELSE count

\* one MonthGrid: the month's first day and the week-aligned run of dates
createMonth(dateObj, weekStart, fixed) ==
  LET monthDate == startOfMonth(dateObj)
      first     == WalkBack(monthDate, weekStart)
      last      == WalkForward(endOfMonth(monthDate), (weekStart + 6) % 7)
      natural   == DayNumber(last) - DayNumber(first) + 1
      count     == IF fixed THEN ExtendWeeks(natural) ELSE natural
  IN  [month |-> monthDate, dates |-> DaysFrom(first, count)]

\* the window: n grids, the i-th for dateObj + i months
createMonths(dateObj, n, weekStart, fixed) ==
  [i \in 1..n |-> createMonth(AddMonths(dateObj, i - 1), weekStart, fixed)]

----------------------------------------------------------------------------
(* useCalendar: the controller's state *)

VARIABLES
  numberOfMonths,   \* props.numberOfMonths
  pagedNavigation,  \* props.pagedNavigation
  fixedWeeks,       \* props.fixedWeeks
  weekStartsOn,     \* props.weekStartsOn
  disabled,         \* toValue(props.disabled), the caller's to change
  minValue,         \* the const minValue captured at construction
  maxValue,         \* the const maxValue captured at construction
  cursor,           \* props.dateCursor.value
  months,           \* months.value: the visible window
  watchOld,         \* the value the watcher of props.dateCursor saw last
  pending,          \* the watcher's callback is queued
  last,             \* the last handler run: its name, months[0].month and
                    \* the flag it met on entry
  trip,             \* a nextPage directly followed by a prevPage: the first
                    \* visible month the nextPage started from
  streak,           \* page calls of one direction in a row: the direction,
                    \* how many, and the first visible month they started from
  propsMinValue,    \* toValue(props.minValue), the caller's to change
  propsMaxValue,    \* toValue(props.maxValue), the caller's to change
  isDateDisabledProp,     \* props.isDateDisabled: absent, or the dates it matches
  isDateUnavailableProp,  \* props.isDateUnavailable: absent, or the dates it matches
  selection         \* toValue(props.selection) of useCalendarState

vars == <<numberOfMonths, pagedNavigation, fixedWeeks, weekStartsOn, disabled,
          minValue, maxValue, cursor, months, watchOld, pending, last, trip,
          streak, propsMinValue, propsMaxValue, isDateDisabledProp,
          isDateUnavailableProp, selection>>

\* what the caller hands to the two composables besides the cursor and the
\* disabled flag
callerInputs == <<propsMinValue, propsMaxValue, isDateDisabledProp,
                  isDateUnavailableProp, selection>>

props == <<numberOfMonths, pagedNavigation, fixedWeeks, weekStartsOn,
           minValue, maxValue>>

\* the months a window may show, as month indices; the handlers are taken
\* only while the window they lead to lies in this range
RangeLo == MonthIndex(RangeStart)

RangeHi == RangeLo + RangeMonths - 1

\* a window of n months that starts in d's month lies in the range
WindowInRange(d, n) ==
  /\ MonthIndex(d) >= RangeLo
  /\ MonthIndex(d) + n - 1 <= RangeHi

\* the dates the caller assigns to the cursor
ExternalDates ==
  { [year |-> 2025, month |-> 11, day |-> 20],
    [year |-> 2026, month |-> 11, day |-> 20] }

\* the (minValue, maxValue) pairs a controller is constructed with
BoundChoices ==
  { <<Undefined, Undefined>>,
    <<[year |-> 2026, month |-> 2, day |-> 1], [year |-> 2026, month |-> 2, day |-> 28]>>,
    <<[year |-> 2026, month |-> 1, day |-> 31], [year |-> 2026, month |-> 3, day |-> 1]>> }

WeekStarts == {0, 1}

\* visibleMonths: the month of every grid of the window
visibleMonths == [i \in 1..Len(months) |-> months[i].month]

\* mutant: the two steps are swapped
PageStep_Swapped == IF pagedNavigation THEN 1 ELSE numberOfMonths

\* the step of a page: props.pagedNavigation ? props.numberOfMonths : 1
PageStep == IF pagedNavigation THEN numberOfMonths ELSE 1

\* mutant: the first day of the next page is compared with >= instead of >
isNextButtonDisabled_Inclusive ==
  IF ~IsSet(maxValue) \/ Len(months) = 0 THEN FALSE
  ELSE IF disabled THEN TRUE
  ELSE LET lastMontInView     == months[Len(months)].month
           firstDayOfNextPage == startOfMonth(AddMonths(lastMontInView, 1))
       IN  Compare(firstDayOfNextPage, maxValue) >= 0

isNextButtonDisabled ==
  IF ~IsSet(maxValue) \/ Len(months) = 0 THEN FALSE
  ELSE IF disabled THEN TRUE
  ELSE LET lastMontInView     == months[Len(months)].month
           firstDayOfNextPage == startOfMonth(AddMonths(lastMontInView, 1))
       IN  isAfter(firstDayOfNextPage, maxValue)

\* mutant: the previous page is judged by its first day instead of its last
isPrevButtonDisabled_StartOfMonth ==
  IF ~IsSet(minValue) \/ Len(months) = 0 THEN FALSE
  ELSE IF disabled THEN TRUE
  ELSE LET firstMonthInView  == months[1].month
           lastDayOfPrevPage == startOfMonth(SubtractMonths(firstMonthInView, 1))
       IN  isBefore(lastDayOfPrevPage, minValue)

isPrevButtonDisabled ==
  IF ~IsSet(minValue) \/ Len(months) = 0 THEN FALSE
  ELSE IF disabled THEN TRUE
  ELSE LET firstMonthInView  == months[1].month
           lastDayOfPrevPage == endOfMonth(SubtractMonths(firstMonthInView, 1))
       IN  isBefore(lastDayOfPrevPage, minValue)

\* mutant: nextPage asks for a single month
NextPageMonths_SingleMonth ==
  createMonths(AddMonths(months[1].month, PageStep), 1, weekStartsOn, fixedWeeks)

\* mutant: nextPage builds its grids without props.fixedWeeks
NextPageMonths_NoFixedWeeks ==
  createMonths(AddMonths(months[1].month, PageStep),
               numberOfMonths, weekStartsOn, FALSE)

\* the window nextPage builds
NextPageMonths ==
  createMonths(AddMonths(months[1].month, PageStep),
               numberOfMonths, weekStartsOn, fixedWeeks)

\* the window prevPage builds
PrevPageMonths ==
  createMonths(SubtractMonths(months[1].month, PageStep),
               numberOfMonths, weekStartsOn, fixedWeeks)

\* mutant: the watcher compares the month numbers and not the years
CursorMonthChanged_MonthOnly(value, oldValue) ==
  CursorSet(value).month # CursorSet(oldValue).month

\* the watcher's test: the months of the new and the old cursor differ
CursorMonthChanged(value, oldValue) ==
  ~isSameMonth(CursorSet(value), CursorSet(oldValue))

\* the window the watcher builds
WatchMonths(value) ==
  createMonths(CursorSet(value), numberOfMonths, weekStartsOn, fixedWeeks)

\* props.isDateDisabled?.(date) / props.isDateUnavailable?.(date): an absent
\* matcher yields undefined, which is falsy
Matches(matcher, date) == matcher.present /\ date \in matcher.dates

\* mutant: maxValue itself is disabled
DisabledByMaxValue_Inclusive(dateObj) ==
  IsSet(maxValue) /\ Compare(dateObj, maxValue) >= 0

\* maxValue && isAfter(dateObj, maxValue)
DisabledByMaxValue(dateObj) == IsSet(maxValue) /\ isAfter(dateObj, maxValue)

\* minValue && isBefore(dateObj, minValue)
DisabledByMinValue(dateObj) == IsSet(minValue) /\ isBefore(dateObj, minValue)

\* mutant: a date equal to a bound is disabled too
isDateDisabled_Inclusive(dateObj) ==
  IF Matches(isDateDisabledProp, dateObj) \/ disabled THEN TRUE
  ELSE IF IsSet(maxValue) /\ Compare(dateObj, maxValue) >= 0 THEN TRUE
  ELSE IF IsSet(minValue) /\ Compare(dateObj, minValue) <= 0 THEN TRUE
  ELSE FALSE

\* mutant: the bounds are read from the props at every call
isDateDisabled_LiveBounds(dateObj) ==
  IF Matches(isDateDisabledProp, dateObj) \/ disabled THEN TRUE
  ELSE IF IsSet(propsMaxValue) /\ isAfter(dateObj, propsMaxValue) THEN TRUE
  ELSE IF IsSet(propsMinValue) /\ isBefore(dateObj, propsMinValue) THEN TRUE
  ELSE FALSE

isDateDisabled(dateObj) ==
  IF Matches(isDateDisabledProp, dateObj) \/ disabled THEN TRUE
  ELSE IF DisabledByMaxValue(dateObj) THEN TRUE
  ELSE IF DisabledByMinValue(dateObj) THEN TRUE
  ELSE FALSE

\* mutant: only the first visible month counts as visible
isOutsideVisibleView_FirstMonth(date) ==
  ~(Len(visibleMonths) > 0 /\ isSameMonth(date, visibleMonths[1]))

isDateUnavailable(date) ==
  IF Matches(isDateUnavailableProp, date) THEN TRUE ELSE FALSE

isOutsideVisibleView(date) ==
  ~(\E i \in 1..Len(visibleMonths) : isSameMonth(date, visibleMonths[i]))

----------------------------------------------------------------------------
(* The heading: toDate (../utils) and the formatter of useDateFormatter, *)
(* in the English of the specification's examples                        *)

\* toDate(date): the instant of the date's midnight, in days since 1970-01-01
toDate(date) == DayNumber(date)

\* the calendar year and month of an instant
DateFields(t) ==
  LET z   == t + 719468
      era == z \div 146097
      doe == z - era * 146097
      yoe == (doe - (doe \div 1460) + (doe \div 36524) - (doe \div 146096)) \div 365
      doy == doe - (365 * yoe + (yoe \div 4) - (yoe \div 100))
      mp  == (5 * doy + 2) \div 153
      m   == IF mp < 10 THEN mp + 3 ELSE mp - 9
  IN  [year |-> yoe + era * 400 + (IF m <= 2 THEN 1 ELSE 0), month |-> m]

MonthNames ==
  << "January", "February", "March", "April", "May", "June", "July",
     "August", "September", "October", "November", "December" >>

\* formatter.fullMonth(date)
fullMonth(t) == MonthNames[DateFields(t).month]

\* formatter.fullYear(date)
fullYear(t) == ToString(DateFields(t).year)

\* formatter.fullMonthAndYear(date)
fullMonthAndYear(t) == fullMonth(t) \o " " \o fullYear(t)

\* mutant: the heading of several months always names one year
headingValue_OneYear ==
  IF Len(months) = 0 THEN ""
  ELSE IF Len(months) = 1 THEN fullMonthAndYear(toDate(months[1].month))
  ELSE LET startMonth == toDate(months[1].month)
           endMonth   == toDate(months[Len(months)].month)
       IN  fullMonth(startMonth) \o " - " \o fullMonth(endMonth) \o " " \o fullYear(endMonth)

headingValue ==
  IF Len(months) = 0 THEN ""
  ELSE IF Len(months) = 1 THEN fullMonthAndYear(toDate(months[1].month))
  ELSE LET startMonth     == toDate(months[1].month)
           endMonth       == toDate(months[Len(months)].month)
           startMonthName == fullMonth(startMonth)
           endMonthName   == fullMonth(endMonth)
           startMonthYear == fullYear(startMonth)
           endMonthYear   == fullYear(endMonth)
       IN  IF startMonthYear = endMonthYear
             THEN startMonthName \o " - " \o endMonthName \o " " \o endMonthYear
             ELSE startMonthName \o " " \o startMonthYear \o " - "
                    \o endMonthName \o " " \o endMonthYear

----------------------------------------------------------------------------
(* useCalendarState, its matchers being the calendar's isDateDisabled and *)
(* isDateUnavailable                                                      *)

isSameDay(a, b) == a.year = b.year /\ a.month = b.month /\ a.day = b.day

isDateSelected(dateObj) ==
  IF selection.kind = "array"
    THEN \E i \in 1..Len(selection.dates) : isSameDay(selection.dates[i], dateObj)
  ELSE IF selection.kind = "undefined" THEN FALSE
  ELSE isSameDay(selection.dates[1], dateObj)

RECURSIVE InvalidFrom(_, _)
\* the for loop over the selected dates, from the i-th on: true at the first
\* date that is disabled or unavailable, false when the dates run out
InvalidFrom(dates, i) ==
  IF i > Len(dates) THEN FALSE
  ELSE IF isDateDisabled(dates[i]) THEN TRUE
  ELSE IF isDateUnavailable(dates[i]) THEN TRUE
  ELSE InvalidFrom(dates, i + 1)

RECURSIVE AllInvalidFrom(_, _)
\* mutant: the loop asks every selected date to be disabled or unavailable
AllInvalidFrom(dates, i) ==
  IF i > Len(dates) THEN TRUE
  ELSE IF ~(isDateDisabled(dates[i]) \/ isDateUnavailable(dates[i])) THEN FALSE
  ELSE AllInvalidFrom(dates, i + 1)

\* mutant: a selected set is invalid only when all of it is
isInvalid_EveryMember ==
  IF selection.kind = "array"
    THEN IF Len(selection.dates) = 0 THEN FALSE
         ELSE AllInvalidFrom(selection.dates, 1)
  ELSE IF selection.kind = "undefined" THEN FALSE
  ELSE IF isDateDisabled(selection.dates[1]) THEN TRUE
  ELSE IF isDateUnavailable(selection.dates[1]) THEN TRUE
  ELSE FALSE

isInvalid ==
  IF selection.kind = "array"
    THEN IF Len(selection.dates) = 0 THEN FALSE
         ELSE InvalidFrom(selection.dates, 1)
  ELSE IF selection.kind = "undefined" THEN FALSE
  ELSE IF isDateDisabled(selection.dates[1]) THEN TRUE
  ELSE IF isDateUnavailable(selection.dates[1]) THEN TRUE
  ELSE FALSE

----------------------------------------------------------------------------

Entry(op, flag) ==
  [op |-> op,
   firstMonth |-> (IF Len(months) = 0 THEN Undefined ELSE months[1].month),
   flag |-> flag]

NoTrip == [phase |-> 0, origin |-> Undefined]

NoStreak == [op |-> "none", count |-> 0, origin |-> Undefined]

\* the streak after one more page call of direction op
Paged(op) ==
  IF streak.op = op /\ streak.count = 1
    THEN [streak EXCEPT !.count = 2]
    ELSE [op |-> op, count |-> 1, origin |-> months[1].month]

\* an absent Matcher prop
NoMatcher == [present |-> FALSE, dates |-> {}]

\* an absent selection
NoSelection == [kind |-> "undefined", dates |-> <<>>]

----------------------------------------------------------------------------
(* Construction *)

\* useCalendar(props): the bounds are captured, the window is built for the
\* cursor and the watcher starts from the cursor
Construct ==
  /\ minValue = (IF IsSet(propsMinValue) THEN CursorSet(propsMinValue) ELSE Undefined)
  /\ maxValue = (IF IsSet(propsMaxValue) THEN CursorSet(propsMaxValue) ELSE Undefined)
  /\ months = createMonths(cursor, numberOfMonths, weekStartsOn, fixedWeeks)
  /\ watchOld = cursor
  /\ pending = FALSE
  /\ last = Entry("useCalendar", FALSE)
  /\ trip = NoTrip
  /\ streak = NoStreak

\* a calendar without matchers and without a selection
Init ==
  /\ numberOfMonths \in 1..MaxNumberOfMonths
  /\ pagedNavigation \in BOOLEAN
  /\ fixedWeeks \in BOOLEAN
  /\ weekStartsOn \in WeekStarts
  /\ disabled \in BOOLEAN
  /\ cursor \in {d \in ExternalDates : WindowInRange(d, numberOfMonths)}
  /\ \E b \in BoundChoices :
        /\ propsMinValue = b[1]
        /\ propsMaxValue = b[2]
  /\ isDateDisabledProp = NoMatcher
  /\ isDateUnavailableProp = NoMatcher
  /\ selection = NoSelection
  /\ Construct

----------------------------------------------------------------------------
(* Handlers *)

\* on an empty window months.value[0].month throws and the call changes nothing
nextPage ==
  /\ Len(months) > 0
  /\ WindowInRange(AddMonths(months[1].month, PageStep), numberOfMonths)
  /\ LET newMonths == NextPageMonths
     IN  /\ months' = newMonths
         /\ cursor' = startOfMonth(newMonths[1].month)
  /\ pending' = TRUE
  /\ last' = Entry("nextPage", isNextButtonDisabled)
  /\ trip' = [phase |-> 1, origin |-> months[1].month]
  /\ streak' = Paged("nextPage")
  /\ UNCHANGED <<props, disabled, watchOld, callerInputs>>

prevPage ==
  /\ Len(months) > 0
  /\ WindowInRange(SubtractMonths(months[1].month, PageStep), numberOfMonths)
  /\ LET newMonths == PrevPageMonths
     IN  cursor' = startOfMonth(newMonths[1].month)
  /\ pending' = TRUE
  /\ last' = Entry("prevPage", isPrevButtonDisabled)
  /\ trip' = (IF trip.phase = 1 THEN [trip EXCEPT !.phase = 2] ELSE NoTrip)
  /\ streak' = Paged("prevPage")
  /\ UNCHANGED <<props, disabled, months, watchOld, callerInputs>>

\* the caller assigns props.dateCursor.value
setCursor ==
  \E d \in ExternalDates :
    /\ d # cursor
    /\ WindowInRange(d, numberOfMonths)
    /\ cursor' = d
    /\ pending' = TRUE
    /\ last' = Entry("setCursor", FALSE)
    /\ trip' = NoTrip
    /\ streak' = NoStreak
    /\ UNCHANGED <<props, disabled, months, watchOld, callerInputs>>

\* the queued callback of watch(props.dateCursor) runs: once for all the
\* assignments since its last run, with the cursor as it is now and the value
\* the watcher saw last
watchCursor ==
  /\ pending
  /\ pending' = FALSE
  /\ watchOld' = cursor
  /\ IF CursorMonthChanged(cursor, watchOld)
        THEN months' = WatchMonths(cursor)
        ELSE UNCHANGED months
  /\ last' = Entry("watch", CursorMonthChanged(cursor, watchOld))
  /\ UNCHANGED <<props, disabled, cursor, trip, streak, callerInputs>>

\* the caller changes props.disabled
setDisabled ==
  /\ disabled' = ~disabled
  /\ last' = Entry("setDisabled", FALSE)
  /\ trip' = NoTrip
  /\ streak' = NoStreak
  /\ UNCHANGED <<props, cursor, months, watchOld, pending, callerInputs>>

----------------------------------------------------------------------------
(* The caller's other inputs *)

\* the longest array the caller selects
MaxSelection == 2

\* the dates the caller selects
SelectionDates ==
  { [year |-> 2026, month |-> 2, day |-> 14],
    [year |-> 2026, month |-> 3, day |-> 2] }

\* the arrays of exactly n selected dates
ArraysOf(n) == [1..n -> SelectionDates]

\* the selections: none, one date, or an array of up to MaxSelection dates
Selections ==
  {NoSelection}
    \cup {[kind |-> "single", dates |-> <<d>>] : d \in SelectionDates}
    \cup {[kind |-> "array", dates |-> a] :
            a \in UNION {ArraysOf(n) : n \in 0..MaxSelection}}

\* props.isDateDisabled: absent, or a matcher of one date
DisabledMatchers ==
  {NoMatcher, [present |-> TRUE, dates |-> {[year |-> 2026, month |-> 2, day |-> 14]}]}

\* props.isDateUnavailable: absent, or a matcher of one date
UnavailableMatchers ==
  {NoMatcher, [present |-> TRUE, dates |-> {[year |-> 2026, month |-> 3, day |-> 2]}]}

\* a calendar with matchers and a selection, navigated one month at a time
InitQuery ==
  /\ numberOfMonths \in 1..MaxNumberOfMonths
  /\ pagedNavigation = FALSE
  /\ fixedWeeks = FALSE
  /\ weekStartsOn \in WeekStarts
  /\ disabled \in BOOLEAN
  /\ cursor \in {d \in ExternalDates : WindowInRange(d, numberOfMonths)}
  /\ \E b \in BoundChoices :
        /\ propsMinValue = b[1]
        /\ propsMaxValue = b[2]
  /\ isDateDisabledProp \in DisabledMatchers
  /\ isDateUnavailableProp \in UnavailableMatchers
  /\ selection \in Selections
  /\ Construct

\* the caller changes props.selection
setSelection ==
  \E sel \in Selections :
    /\ sel # selection
    /\ selection' = sel
    /\ last' = Entry("setSelection", FALSE)
    /\ UNCHANGED <<props, disabled, cursor, months, watchOld, pending, trip, streak,
                   propsMinValue, propsMaxValue, isDateDisabledProp,
                   isDateUnavailableProp>>

\* the caller changes props.minValue and props.maxValue after construction
setBounds ==
  \E b \in BoundChoices :
    /\ b # <<propsMinValue, propsMaxValue>>
    /\ propsMinValue' = b[1]
    /\ propsMaxValue' = b[2]
    /\ last' = Entry("setBounds", FALSE)
    /\ UNCHANGED <<props, disabled, cursor, months, watchOld, pending, trip, streak,
                   isDateDisabledProp, isDateUnavailableProp, selection>>

NextQuery == setSelection \/ setBounds \/ setDisabled

QuerySpec == InitQuery /\ [][NextQuery]_vars

----------------------------------------------------------------------------

Next == nextPage \/ prevPage \/ setCursor \/ watchCursor \/ setDisabled

Spec == Init /\ [][Next]_vars

----------------------------------------------------------------------------
(* Vocabulary of the properties *)

\* the first day of the month with month index idx
MonthOfIndex(idx) == [year |-> idx \div 12, month |-> (idx % 12) + 1, day |-> 1]

FirstVisible == months[1].month

LastVisible == months[Len(months)].month

\* the step the configuration asks of a page
ConfiguredStep == IF pagedNavigation THEN numberOfMonths ELSE 1

\* a window of numberOfMonths grids, each one calendar month after the one
\* before it
ContiguousWindow ==
  /\ Len(months) = numberOfMonths
  /\ \A i \in 1..(Len(months) - 1) :
       /\ MonthIndex(months[i + 1].month) = MonthIndex(months[i].month) + 1
       /\ months[i + 1].month = AddMonths(months[i].month, 1)

NoBounds == ~IsSet(minValue) /\ ~IsSet(maxValue)

----------------------------------------------------------------------------
(* Properties *)

\* C1: with pagedNavigation = false and no minValue/maxValue, a nextPage
\* directly followed by a prevPage leaves, once no cursor-change callback is
\* pending any more, the first visible month the nextPage started from.
C1_RoundTripRestoresMonth ==
  (trip.phase = 2 /\ ~pending /\ ~pagedNavigation /\ NoBounds)
    => FirstVisible = trip.origin

\* C2: in every state seen right after nextPage or prevPage returns, the
\* cursor is the first day of the first visible month of the window.
C2_CursorMatchesWindow ==
  (last.op \in {"nextPage", "prevPage"}) => cursor = startOfMonth(FirstVisible)

\* C3: nextPage moves the first visible month forward by numberOfMonths months
\* under pagedNavigation and by 1 month otherwise, counted from the month
\* that was first visible, whatever the day of the cursor was.
C3_NextPageStep ==
  (last.op = "nextPage") =>
    /\ MonthIndex(FirstVisible) = MonthIndex(last.firstMonth) + ConfiguredStep
    /\ FirstVisible.day = 1

\* C3 witness: a paged nextPage of a two-month window that was built for a
\* cursor in the middle of its month
C3_Witness ==
  /\ last.op = "nextPage"
  /\ pagedNavigation
  /\ numberOfMonths > 1
  /\ watchOld.day # 1
  /\ isSameMonth(watchOld, last.firstMonth)
  /\ MonthIndex(FirstVisible) = MonthIndex(watchOld) + numberOfMonths

\* C4: when prevPage returns, the window starts at the month the configured
\* step before the one that was first visible, and the cursor is the first
\* day of that month.
C4_PrevPageBothEffects ==
  (last.op = "prevPage") =>
    /\ MonthIndex(FirstVisible) = MonthIndex(last.firstMonth) - ConfiguredStep
    /\ cursor = MonthOfIndex(MonthIndex(last.firstMonth) - ConfiguredStep)

\* the first day of the month after the last visible one lies strictly after
\* maxValue
NextPageBeyondMax ==
  /\ IsSet(maxValue)
  /\ DayNumber(MonthOfIndex(MonthIndex(LastVisible) + 1)) > DayNumber(maxValue)

\* C5 (as stated): isNextButtonDisabled is true exactly when maxValue is set
\* and the first day of the month after the last visible month is strictly
\* after maxValue.
C5_NextDisabledExactlyBeyondMax == isNextButtonDisabled <=> NextPageBeyondMax

\* C5 (amended): while the calendar is not globally disabled,
\* isNextButtonDisabled is true exactly when maxValue is set and the first day
\* of the month after the last visible month is strictly after maxValue; so a
\* maxValue on that first day leaves the button enabled and a maxValue on the
\* last day of the last visible month disables it.
C5_NextDisabledBeyondMaxWhenEnabled ==
  ~disabled =>
    /\ isNextButtonDisabled <=> NextPageBeyondMax
    /\ (maxValue = MonthOfIndex(MonthIndex(LastVisible) + 1)) => ~isNextButtonDisabled
    /\ (maxValue = endOfMonth(LastVisible)) => isNextButtonDisabled

\* C5 witness: maxValue is the first day of the month after the last visible
\* one, and the button is enabled
C5_Witness ==
  /\ ~disabled
  /\ maxValue = MonthOfIndex(MonthIndex(LastVisible) + 1)
  /\ ~isNextButtonDisabled
  /\ last.op \in {"nextPage", "watch"}

\* C6: whenever the caller has disabled the calendar, both buttons are
\* disabled, with or without minValue/maxValue.
C6_DisabledDisablesBothButtons ==
  disabled => (isNextButtonDisabled /\ isPrevButtonDisabled)

\* the last day of the month before the first visible one lies strictly
\* before minValue
PrevPageBeforeMin ==
  /\ IsSet(minValue)
  /\ DayNumber(MonthOfIndex(MonthIndex(FirstVisible))) - 1 < DayNumber(minValue)

\* C7: while the calendar is not globally disabled, isPrevButtonDisabled is
\* true exactly when minValue is set and the last day of the month before the
\* first visible month is strictly before minValue: a minValue inside the
\* first visible month (its 1st day included) disables going back, a minValue
\* on the last day of the month before does not, and no minValue never does.
C7_PrevDisabledBeforeMin ==
  ~disabled =>
    /\ isPrevButtonDisabled <=> PrevPageBeforeMin
    /\ (IsSet(minValue) /\ isSameMonth(minValue, FirstVisible)) => isPrevButtonDisabled
    /\ (IsSet(minValue) /\ DayNumber(minValue) = DayNumber(FirstVisible) - 1)
          => ~isPrevButtonDisabled
    /\ ~IsSet(minValue) => ~isPrevButtonDisabled

\* C7 witness: minValue is the 1st day of the first visible month, reached by
\* navigation, and going back is disabled
C7_Witness ==
  /\ ~disabled
  /\ minValue = FirstVisible
  /\ isPrevButtonDisabled
  /\ last.op \in {"nextPage", "watch"}

\* C8: nextPage and prevPage called while their button is disabled still move
\* the window by the full step, to a window of numberOfMonths contiguous
\* months.
C8_NoClampWhenDisabled ==
  /\ (last.op = "nextPage" /\ last.flag) =>
        /\ MonthIndex(FirstVisible) = MonthIndex(last.firstMonth) + ConfiguredStep
        /\ ContiguousWindow
  /\ (last.op = "prevPage" /\ last.flag) =>
        /\ MonthIndex(FirstVisible) = MonthIndex(last.firstMonth) - ConfiguredStep
        /\ ContiguousWindow

\* C9: when the cursor-change callback runs, the window is rebuilt, anchored
\* at the new cursor's month, if the new cursor's year or month differs from
\* the old cursor's, and is left as it was otherwise.
C9_RebuildOnlyOnMonthChange ==
  [][(pending /\ ~pending') =>
       IF MonthIndex(cursor) # MonthIndex(watchOld)
         THEN /\ ContiguousWindow'
              /\ FirstVisible' = MonthOfIndex(MonthIndex(cursor))
         ELSE months' = months]_vars

\* C9 witness: the callback rebuilt the window for a cursor moved to the same
\* month of another year
C9_Witness ==
  /\ last.op = "watch"
  /\ last.flag
  /\ FirstVisible # last.firstMonth
  /\ FirstVisible.month = last.firstMonth.month
  /\ FirstVisible = startOfMonth(cursor)

\* C10: the window always holds numberOfMonths grids, each one calendar month
\* after the one before it, also from December to January.
C10_WindowContiguous == ContiguousWindow

\* C10 witness: a window reached by navigation that runs from December into
\* January
C10_Witness ==
  /\ last.op \in {"nextPage", "watch"}
  /\ numberOfMonths > 1
  /\ \E i \in 1..(Len(months) - 1) :
       /\ months[i].month.month = 12
       /\ months[i + 1].month.month = 1
       /\ months[i + 1].month.year = months[i].month.year + 1

\* useCalendar checks nothing of its configuration: a calendar of any
\* numberOfMonths the caller passes, zero included, without bounds
InitAnyConfig ==
  /\ numberOfMonths \in 0..MaxNumberOfMonths
  /\ pagedNavigation \in BOOLEAN
  /\ fixedWeeks = FALSE
  /\ weekStartsOn \in WeekStarts
  /\ disabled = FALSE
  /\ cursor \in {d \in ExternalDates : WindowInRange(d, numberOfMonths)}
  /\ propsMinValue = Undefined
  /\ propsMaxValue = Undefined
  /\ isDateDisabledProp = NoMatcher
  /\ isDateUnavailableProp = NoMatcher
  /\ selection = NoSelection
  /\ Construct

SpecAnyConfig == InitAnyConfig /\ [][Next]_vars

----------------------------------------------------------------------------
(* Date queries *)

\* the dates queried: the selected dates, and every bound the caller may set
\* with the day before and the day after it
QueryDates ==
  SelectionDates
    \cup UNION { {PrevDay(b[i]), b[i], NextDay(b[i])} :
                   b \in {c \in BoundChoices : IsSet(c[1])}, i \in 1..2 }

\* the date is later than the captured maxValue, or earlier than the
\* captured minValue, by its day count
StrictlyOutsideBounds(d) ==
  \/ IsSet(maxValue) /\ DayNumber(d) > DayNumber(maxValue)
  \/ IsSet(minValue) /\ DayNumber(d) < DayNumber(minValue)

\* C11: isDateDisabled(d) is true exactly when the caller's predicate matches
\* d, or the calendar is globally disabled, or d is strictly after maxValue,
\* or d is strictly before minValue; a date equal to a bound is not disabled
\* by the bounds, and an absent predicate or bound never disables.
C11_DateDisabledExactly ==
  \A d \in QueryDates :
    /\ isDateDisabled(d) <=>
         \/ isDateDisabledProp.present /\ d \in isDateDisabledProp.dates
         \/ disabled
         \/ StrictlyOutsideBounds(d)
    /\ (d \in {minValue, maxValue} /\ ~disabled /\ d \notin isDateDisabledProp.dates)
         => ~isDateDisabled(d)
    /\ (~isDateDisabledProp.present /\ ~IsSet(minValue) /\ ~IsSet(maxValue) /\ ~disabled)
         => ~isDateDisabled(d)

\* an enabled calendar with bounds: both bounds are selectable, the days just
\* beyond them are not, and the matcher disables a day between them
C11_Witness ==
  /\ last.op = "setDisabled"
  /\ ~disabled
  /\ IsSet(minValue) /\ IsSet(maxValue)
  /\ isDateDisabledProp.present
  /\ ~isDateDisabled(maxValue) /\ isDateDisabled(NextDay(maxValue))
  /\ ~isDateDisabled(minValue) /\ isDateDisabled(PrevDay(minValue))
  /\ \E d \in isDateDisabledProp.dates : isDateDisabled(d) /\ ~StrictlyOutsideBounds(d)

\* a selected date that is disabled or unavailable
DisabledOrUnavailable(d) == isDateDisabled(d) \/ isDateUnavailable(d)

\* C12 as stated: isInvalid is false for an absent selection and for an empty
\* set; for a single date it is true exactly when the date is disabled or
\* unavailable; for a set it is true exactly when every member is disabled or
\* unavailable.
C12_InvalidWhenEveryMember ==
  /\ selection.kind = "undefined" => ~isInvalid
  /\ (selection.kind = "array" /\ Len(selection.dates) = 0) => ~isInvalid
  /\ selection.kind = "single" =>
       (isInvalid <=> DisabledOrUnavailable(selection.dates[1]))
  /\ (selection.kind = "array" /\ Len(selection.dates) > 0) =>
       (isInvalid <=>
          \A i \in 1..Len(selection.dates) : DisabledOrUnavailable(selection.dates[i]))

\* C12, amended: isInvalid is false for an absent selection and for an empty
\* set; for a single date it is true exactly when the date is disabled or
\* unavailable; for a non-empty set it is true exactly when at least one
\* member is disabled or unavailable.
C12_InvalidWhenAnyMember ==
  /\ selection.kind = "undefined" => ~isInvalid
  /\ (selection.kind = "array" /\ Len(selection.dates) = 0) => ~isInvalid
  /\ selection.kind = "single" =>
       (isInvalid <=> DisabledOrUnavailable(selection.dates[1]))
  /\ (selection.kind = "array" /\ Len(selection.dates) > 0) =>
       (isInvalid <=>
          \E i \in 1..Len(selection.dates) : DisabledOrUnavailable(selection.dates[i]))

\* a selected set with one selectable and one disabled member, which the
\* code calls invalid
C12_Witness ==
  /\ last.op = "setSelection"
  /\ selection.kind = "array"
  /\ Len(selection.dates) = 2
  /\ ~DisabledOrUnavailable(selection.dates[1])
  /\ DisabledOrUnavailable(selection.dates[2])
  /\ isInvalid

----------------------------------------------------------------------------
(* Configuration and heading *)

\* C13: a configuration with numberOfMonths < 1 or weekStartsOn outside 0..6
\* is rejected at construction: no controller with an empty window exists.
C13_BadConfigRejected ==
  /\ numberOfMonths >= 1
  /\ weekStartsOn \in 0..6
  /\ Len(months) >= 1

\* the heading the window should have, from the year and month of its first
\* and last visible month
ExpectedHeading ==
  IF Len(months) = 0 THEN ""
  ELSE IF Len(months) = 1
    THEN MonthNames[FirstVisible.month] \o " " \o ToString(FirstVisible.year)
  ELSE IF FirstVisible.year = LastVisible.year
    THEN MonthNames[FirstVisible.month] \o " - " \o MonthNames[LastVisible.month]
           \o " " \o ToString(LastVisible.year)
  ELSE MonthNames[FirstVisible.month] \o " " \o ToString(FirstVisible.year) \o " - "
         \o MonthNames[LastVisible.month] \o " " \o ToString(LastVisible.year)

\* C14: the heading is empty for an empty window, '<FullMonth> <Year>' for one
\* visible month, '<First> - <Last> <Year>' for several months of one year and
\* '<First> <FirstYear> - <Last> <LastYear>' otherwise, after any navigation.
C14_HeadingOfWindow == headingValue = ExpectedHeading

\* a window from December to January, reached by navigation
C14_Witness ==
  /\ last.op \in {"nextPage", "watch"}
  /\ Len(months) = 2
  /\ headingValue = "December 2025 - January 2026"

----------------------------------------------------------------------------
(* Grids *)

\* the grid starts on the week's first day, at most 6 days before the 1st of
\* its month, holds consecutive days in whole weeks and reaches the end of
\* the month
TilesMonth(grid) ==
  LET n     == Len(grid.dates)
      first == DayNumber(grid.dates[1])
      start == DayNumber(startOfMonth(grid.month))
      end   == DayNumber(endOfMonth(grid.month))
  IN  /\ n % 7 = 0
      /\ DayOfWeek(grid.dates[1]) = weekStartsOn
      /\ first <= start /\ start - first <= 6
      /\ DayNumber(grid.dates[n]) = first + n - 1
      /\ first + n - 1 >= end

\* the grid ends in the week of the last day of its month
EndsWithMonth(grid) ==
  DayNumber(grid.dates[Len(grid.dates)]) - DayNumber(endOfMonth(grid.month)) <= 6

\* C15: with fixedWeeks every grid of the window has exactly 42 dates, at
\* construction and after every navigation or rebuild; without it every grid
\* has the length of the natural week tiling of its month, 28, 35 or 42; a
\* grid is only extended at its trailing end and never truncated.
C15_GridLength ==
  \A i \in 1..Len(months) :
    /\ TilesMonth(months[i])
    /\ fixedWeeks => Len(months[i].dates) = 42
    /\ ~fixedWeeks =>
         /\ Len(months[i].dates) \in {28, 35, 42}
         /\ EndsWithMonth(months[i])

\* nextPage has built the grid of a February of exactly four weeks and
\* extended it by two trailing weeks
C15_Witness ==
  /\ fixedWeeks
  /\ last.op = "nextPage"
  /\ \E i \in 1..Len(months) :
       /\ months[i].month.month = 2
       /\ months[i].dates[1] = months[i].month
       /\ Len(months[i].dates) = 42

\* C16: isOutsideVisibleView(d) is true exactly when the year and month of d
\* are those of no month of the window; a leading or trailing day of a grid
\* whose month is not in the window is outside the visible view.
C16_OutsideExactlyOtherMonths ==
  \A i \in 1..Len(months) :
    \A k \in 1..Len(months[i].dates) :
      LET d == months[i].dates[k]
      IN  isOutsideVisibleView(d) <=>
            \A j \in 1..Len(months) :
              d.year # months[j].month.year \/ d.month # months[j].month.month

\* a window of two months after nextPage: a leading day of the first grid is
\* outside, a trailing day of the first grid that lies in the second month
\* is not
C16_Witness ==
  /\ last.op = "nextPage"
  /\ Len(months) = 2
  /\ \E k \in 1..Len(months[1].dates) :
       /\ MonthIndex(months[1].dates[k]) < MonthIndex(months[1].month)
       /\ isOutsideVisibleView(months[1].dates[k])
  /\ \E k \in 1..Len(months[1].dates) :
       /\ MonthIndex(months[1].dates[k]) = MonthIndex(months[2].month)
       /\ ~isOutsideVisibleView(months[1].dates[k])

----------------------------------------------------------------------------
(* Calls in a row, bounds *)

\* C17: two consecutive prevPage calls move the first visible month back by
\* twice the page step, as two nextPage calls move it forward by twice the
\* step, with or without a callback between the calls.
C17_TwoCallsTwoSteps ==
  (streak.count = 2 /\ ~pending) =>
    MonthIndex(FirstVisible) =
      MonthIndex(streak.origin)
        + (IF streak.op = "nextPage" THEN 2 * ConfiguredStep ELSE 0 - 2 * ConfiguredStep)

\* the days of the month of the date
DaysOfMonth(date) ==
  { [year |-> date.year, month |-> date.month, day |-> k] :
      k \in 1..DaysInMonth(date.year, date.month) }

\* C18: while the calendar is not globally disabled, with maxValue set the
\* next button is disabled exactly when every day of the month after the
\* last visible month is disabled by the maxValue bound of isDateDisabled,
\* and with minValue set the previous button is disabled exactly when every
\* day of the month before the first visible month is disabled by the
\* minValue bound.
C18_ButtonsAgreeWithDates ==
  (~disabled /\ Len(months) > 0) =>
    /\ IsSet(maxValue) =>
         (isNextButtonDisabled <=>
            \A d \in DaysOfMonth(AddMonths(LastVisible, 1)) : DisabledByMaxValue(d))
    /\ IsSet(minValue) =>
         (isPrevButtonDisabled <=>
            \A d \in DaysOfMonth(SubtractMonths(FirstVisible, 1)) : DisabledByMinValue(d))

\* after navigation, an enabled calendar whose next page starts on maxValue:
\* the button is enabled and the first day of that page is selectable
C18_Witness ==
  /\ ~disabled
  /\ last.op \in {"nextPage", "watch"}
  /\ IsSet(maxValue)
  /\ startOfMonth(AddMonths(LastVisible, 1)) = maxValue
  /\ ~isNextButtonDisabled
  /\ ~isDateDisabled(maxValue)
  /\ isDateDisabled(NextDay(maxValue))

\* the caller's bounds differ from the ones captured at construction
BoundsChanged == propsMinValue' # propsMinValue \/ propsMaxValue' # propsMaxValue

\* C19: minValue and maxValue are read once, at construction: after a later
\* change of the caller's minValue or maxValue, isDateDisabled and the two
\* button flags answer as before the change, by the bounds of construction,
\* whereas a change of the global disabled flag shows in the next query.
C19_BoundsReadOnce ==
  [][ /\ BoundsChanged =>
           /\ \A d \in QueryDates : isDateDisabled(d)' = isDateDisabled(d)
           /\ isNextButtonDisabled' = isNextButtonDisabled
           /\ isPrevButtonDisabled' = isPrevButtonDisabled
           /\ minValue' = minValue /\ maxValue' = maxValue
      /\ (disabled' /\ ~disabled) =>
           /\ \A d \in QueryDates : isDateDisabled(d)'
           /\ IsSet(maxValue) => isNextButtonDisabled'
           /\ IsSet(minValue) => isPrevButtonDisabled'
      /\ (disabled /\ ~disabled') =>
           \A d \in QueryDates :
             isDateDisabled(d)' <=>
               (Matches(isDateDisabledProp, d) \/ StrictlyOutsideBounds(d))
    ]_vars

\* the caller has moved maxValue one day on: the day after the captured
\* maxValue is within the caller's bounds and is still disabled
C19_Witness ==
  /\ last.op = "setBounds"
  /\ ~disabled
  /\ IsSet(maxValue) /\ IsSet(propsMaxValue) /\ IsSet(propsMinValue)
  /\ LET d == NextDay(maxValue)
     IN  /\ DayNumber(d) <= DayNumber(propsMaxValue)
         /\ DayNumber(d) >= DayNumber(propsMinValue)
         /\ ~Matches(isDateDisabledProp, d)
         /\ isDateDisabled(d)

====
